---- MODULE Spec2Model ----
(***************************************************************************)
(* Model of StateManager (src/src/state/state.manager.ts): the container   *)
(* that owns the Store instances, routes the client's events to them and   *)
(* exposes refresh / reset / getStore / hasStore / get / select / destroy. *)
(*                                                                         *)
(* The Store class, the STORE_CONFIG descriptor and the ALL_STORES list    *)
(* live in modules that are not part of the sources at hand; they are      *)
(* modelled from the specification (Store* operators, STORE_CONFIG,        *)
(* ALL_STORES).                                                            *)
(***************************************************************************)
EXTENDS Integers, Sequences, FiniteSets, Bags, TLC

\* Bounds of the model.
MaxTasks == 2          \* refresh() promises pending at the same time
MaxVal == 1            \* store values range over 0..MaxVal

Values == 0 .. MaxVal

(***************************************************************************)
(* Identifiers: a plain string, a store type (constructor), or undefined   *)
(* (the omitted optional argument of refresh()).                           *)
(***************************************************************************)
Str(s) == [t |-> "string", v |-> s]
Typ(c) == [t |-> "type", v |-> c]
Undefined == [t |-> "undefined", v |-> ""]

Strings == {"volume", "playback", "unknown", ""}
Types == {"VolumeStore", "PlaybackStore", "OrphanStore", "PlainClass"}
Identifiers == {Str(s) : s \in Strings} \cup {Typ(c) : c \in Types}

\* The list of store types handed to initialize().
ALL_STORES == <<"VolumeStore", "PlaybackStore">>

\* The static descriptor (type as any)[STORE_CONFIG]; PlainClass has none,
\* OrphanStore has one but is not part of ALL_STORES.
STORE_CONFIG(type) ==
  CASE type = "VolumeStore" -> [defined |-> TRUE, name |-> "volume"]
    [] type = "PlaybackStore" -> [defined |-> TRUE, name |-> "playback"]
    [] type = "OrphanStore" -> [defined |-> TRUE, name |-> "orphan"]
    [] OTHER -> [defined |-> FALSE, name |-> ""]

\* A store instance is identified by the type it was constructed from.
Instances == {ALL_STORES[i] : i \in 1 .. Len(ALL_STORES)}

\* The built-in default a store's reset() restores.
StoreDefault(s) == 0

(***************************************************************************)
(* Results of synchronous calls and errors.                                *)
(***************************************************************************)
Return(x) == [kind |-> "return", val |-> x]
Throw(e) == [kind |-> "throw", val |-> e]

\* Error(`Store '${nameOrType}' does not exist!`)
NotFound(name) == [type |-> "Error", about |-> name]
\* reading .name of undefined
TypeError == [type |-> "TypeError", about |-> "undefined"]
\* the rejection of store s's own refresh()
RemoteError(s) == [type |-> "RemoteError", about |-> s]
NoError == [type |-> "none", about |-> ""]

\* One invocation of a Store method by the StateManager.
Call(m, s, a) == [m |-> m, store |-> s, arg |-> a]

(***************************************************************************)
(* The JavaScript Map of line 16: insertion-ordered, unique keys.          *)
(***************************************************************************)
MapHas(m, k) == \E i \in 1 .. Len(m) : m[i].key = k
\* A lookup that returns the first entry's store whatever the key.
MapGet_First(m, k) == m[1].store
MapGet(m, k) == m[CHOOSE i \in 1 .. Len(m) : m[i].key = k].store
MapSet(m, k, s) ==
  IF MapHas(m, k)
  THEN [i \in 1 .. Len(m) |-> IF m[i].key = k THEN [key |-> k, store |-> s] ELSE m[i]]
  ELSE Append(m, [key |-> k, store |-> s])
\* An iteration in reverse insertion order.
MapValues_Reversed(m) == [i \in 1 .. Len(m) |-> m[Len(m) + 1 - i].store]
MapValues(m) == [i \in 1 .. Len(m) |-> m[i].store]
MapKeys(m) == {m[i].key : i \in 1 .. Len(m)}

VARIABLES
  stores,      \* Map<string, Store>: sequence of [key, store] entries
  value,       \* value[s]: the current value of store instance s
  destroyed,   \* destroy$ has emitted and completed
  subs,        \* the client events whose subscription is still active
  tasks,       \* the bag of pending promises of the refresh() calls
  selectSubs,  \* the select() subscriptions made before destroy()
  last         \* what the latest step did (calls made, result, emissions)

vars == <<stores, value, destroyed, subs, tasks, selectSubs, last>>

Channels == {"connect", "event:state", "event:reset", "event:entity"}

(***************************************************************************)
(* The Store contract (state.utils), modelled from the specification:      *)
(* set(v) overwrites the value, reset() restores the default, a resolved   *)
(* refresh() stores the value pulled from the remote, a rejected refresh() *)
(* leaves the value alone, get() reads the value, and the select()         *)
(* subscriptions of a store are notified when its value changes.           *)
(***************************************************************************)
StoreSet(vals, s, v) == [vals EXCEPT ![s] = v]
StoreReset(vals, s) == [vals EXCEPT ![s] = StoreDefault(s)]
StoreRefreshed(vals, s, v) == [vals EXCEPT ![s] = v]
StoreGet(vals, s) == vals[s]
StoreEmits(old, new, subscriptions) == {x \in subscriptions : old[x.store] # new[x.store]}

\* The effect of a sequence of synchronous store calls on the values.
RECURSIVE ApplyCalls(_, _)
ApplyCalls(vals, calls) ==
  IF calls = <<>> THEN vals
  ELSE LET c == Head(calls)
           v1 == CASE c.m = "set" -> StoreSet(vals, c.store, c.arg[1])
                   [] c.m = "reset" -> StoreReset(vals, c.store)
                   [] OTHER -> vals
       IN ApplyCalls(v1, Tail(calls))

(***************************************************************************)
(* StateManager: the synchronous helpers.                                  *)
(***************************************************************************)
\* A lookup by the constructor's own name instead of the descriptor's.
getStoreNameByType_ClassName(type) == Return(type)

\* private getStoreNameByType(type): (type as any)[STORE_CONFIG].name
getStoreNameByType(type) ==
  IF STORE_CONFIG(type).defined THEN Return(STORE_CONFIG(type).name) ELSE Throw(TypeError)

\* The name an identifier resolves to (lines 52-54 and 66-68).
ResolveName(nameOrType) ==
  IF nameOrType.t # "string" THEN getStoreNameByType(nameOrType.v) ELSE Return(nameOrType.v)

\* hasStore(nameOrType)
hasStore(nameOrType) ==
  LET r == ResolveName(nameOrType)
  IN IF r.kind = "throw" THEN r ELSE Return(MapHas(stores, r.val))

\* getStore(nameOrType)
getStore(nameOrType) ==
  LET r == ResolveName(nameOrType)
  IN IF r.kind = "throw" THEN r
     ELSE LET h == hasStore(Str(r.val))
          IN IF h.kind = "throw" THEN h
             ELSE IF ~h.val THEN Throw(NotFound(r.val))
             ELSE Return(MapGet(stores, r.val))

\* get(nameOrType): store.get() of the resolved store
get(nameOrType) ==
  LET g == getStore(nameOrType)
  IN IF g.kind = "throw" THEN g ELSE Return(StoreGet(value, g.val))

\* A set() that writes the value to every store.
set_Broadcast(storeName, v) ==
  [i \in 1 .. Len(stores) |-> Call("set", MapValues(stores)[i], <<v>>)]

\* A set() that drops the value while the store has a refresh in flight.
set_SkipWhileRefreshing(storeName, v) ==
  IF /\ MapHas(stores, storeName)
     /\ \A t \in BagToSet(tasks) : MapGet(stores, storeName) \notin t.inflight
  THEN <<Call("set", MapGet(stores, storeName), <<v>>)>>
  ELSE <<>>

\* private set(storeName, value): the store calls it makes
set(storeName, v) ==
  IF MapHas(stores, storeName)
  THEN <<Call("set", MapGet(stores, storeName), <<v>>)>>
  ELSE <<>>

\* A reset() whose loop misses the first store.
reset_SkipFirst ==
  [i \in 1 .. Len(stores) - 1 |-> Call("reset", MapValues(stores)[i + 1], <<>>)]

\* A reset() that returns after the first store it finds changed.
reset_StopAtFirstChanged ==
  LET vs == MapValues(stores)
      changed == {i \in 1 .. Len(vs) : value[vs[i]] # StoreDefault(vs[i])}
  IN IF changed = {} THEN <<>>
     ELSE <<Call("reset", vs[CHOOSE i \in changed : \A j \in changed : i <= j], <<>>)>>

\* reset(): the store calls it makes
reset ==
  [i \in 1 .. Len(stores) |-> Call("reset", MapValues(stores)[i], <<>>)]

\* A filter that lets every event through.
filterHasStore_PassAll(evt) == TRUE

\* filterHasStore(): the predicate of the filter operator
filterHasStore(evt) ==
  LET h == hasStore(Str(evt.name)) IN h.kind = "return" /\ h.val

\* initialize(types): the map built from the store types, in order
RECURSIVE initialize(_)
initialize(types) ==
  IF types = <<>> THEN <<>>
  ELSE LET n == Len(types)
           type == types[n]
       IN MapSet(initialize(SubSeq(types, 1, n - 1)), getStoreNameByType(type).val, type)

\* A subscribeEvents() that forgets the 'event:entity' subscription.
subscribeEvents_Three == {"connect", "event:state", "event:reset"}

\* subscribeEvents(): the four subscriptions it creates
subscribeEvents == Channels

(***************************************************************************)
(* refresh(storeName?): an async function.  A call runs synchronously up   *)
(* to its first await; the promise it returns is a task that is resumed   *)
(* when the awaited store refresh settles.                                 *)
(*   origin    "connect" for the call of the connect subscriber, "call"    *)
(*             for every other call                                        *)
(*   bulk      the call iterates this.stores.values()                      *)
(*   invoked   the stores whose refresh() the call has invoked, in order   *)
(*   inflight  the invoked store refreshes that have not settled yet       *)
(***************************************************************************)
Pending == [kind |-> "pending", val |-> NoError]
Fulfilled == [kind |-> "fulfilled", val |-> NoError]
Rejected(e) == [kind |-> "rejected", val |-> e]
NoResult == [kind |-> "none", val |-> NoError]

Task(bulk, invoked, inflight, status) ==
  [origin |-> "call", bulk |-> bulk, invoked |-> invoked, inflight |-> inflight,
   status |-> status.kind, err |-> status.val]

\* A test that takes the bulk branch whatever the argument.
Truthy_Never(storeName) == FALSE

\* `if (storeName)`: undefined and the empty string are falsy
Truthy(storeName) == storeName.t = "string" /\ storeName.v # ""

\* A loop that invokes every remaining store's refresh() at once.
refreshLoop_AllAtOnce(task) ==
  LET vs == MapValues(stores)
      k == Len(task.invoked)
  IN IF k < Len(vs)
     THEN [task EXCEPT !.invoked = vs, !.inflight = @ \cup {vs[i] : i \in k + 1 .. Len(vs)}]
     ELSE [task EXCEPT !.status = "fulfilled"]

\* The for...of loop of lines 33-35, entered or re-entered with `task`:
\* invoke the next store's refresh() and suspend, or finish.
refreshLoop(task) ==
  LET vs == MapValues(stores)
      k == Len(task.invoked)
  IN IF k < Len(vs)
     THEN [task EXCEPT !.invoked = Append(@, vs[k + 1]), !.inflight = @ \cup {vs[k + 1]}]
     ELSE [task EXCEPT !.status = "fulfilled"]

\* The synchronous part of refresh(storeName): the settled result if the
\* call does not suspend, otherwise the task it leaves behind.
refresh(storeName) ==
  IF Truthy(storeName)
  THEN LET g == getStore(storeName)
       IN IF g.kind = "throw"
          THEN [result |-> Rejected(g.val), task |-> <<>>]
          ELSE [result |-> Pending,
                task |-> <<Task(FALSE, <<g.val>>, {g.val}, Pending)>>]
  ELSE LET t == refreshLoop(Task(TRUE, <<>>, {}, Pending))
       IN IF t.status = "fulfilled"
          THEN [result |-> Fulfilled, task |-> <<>>]
          ELSE [result |-> Pending, task |-> <<t>>]

\* A continuation that returns after the first store.
resume_StopAfterFirst(task, s) ==
  [task EXCEPT !.inflight = @ \ {s}, !.status = "fulfilled"]

\* A continuation that stops the loop once destroy$ has completed.
resume_GuardDestroyed(task, s) ==
  LET t == [task EXCEPT !.inflight = @ \ {s}]
  IN IF task.bulk /\ ~destroyed THEN refreshLoop(t) ELSE [t EXCEPT !.status = "fulfilled"]

\* The continuation after `await store.refresh()` of store s resolved.
resume(task, s) ==
  LET t == [task EXCEPT !.inflight = @ \ {s}]
  IN IF task.bulk THEN refreshLoop(t) ELSE [t EXCEPT !.status = "fulfilled"]

\* A continuation that catches the rejection and carries on.
abort_Swallow(task, s, e) ==
  LET t == [task EXCEPT !.inflight = @ \ {s}]
  IN IF task.bulk THEN refreshLoop(t) ELSE [t EXCEPT !.status = "fulfilled"]

\* The continuation after `await store.refresh()` of store s rejected with e:
\* nothing catches it, the promise of refresh() rejects with e.
abort(task, s, e) ==
  [task EXCEPT !.inflight = @ \ {s}, !.status = "rejected", !.err = e]

\* The refresh() invocations a task made between two of its states.
NewCalls(old, new) ==
  [i \in 1 .. (Len(new.invoked) - Len(old.invoked)) |->
     Call("refresh", new.invoked[Len(old.invoked) + i], <<>>)]

\* A destroy() that leaves the 'event:state' subscription running.
destroy_KeepsStateSub == [calls |-> reset, subs |-> {"event:state"}, destroyed |-> TRUE]

\* destroy(): reset(), then destroy$.next() and destroy$.complete(), which
\* end every subscription piped through takeUntil(destroy$).
destroy == [calls |-> reset, subs |-> {}, destroyed |-> TRUE]

(***************************************************************************)
(* The record of the latest step.                                          *)
(***************************************************************************)
Step(op, id, arg, active, passed, calls, result, task, emits) ==
  [op |-> op, id |-> id, arg |-> arg, active |-> active, passed |-> passed,
   calls |-> calls, result |-> result, task |-> task, emits |-> emits]

NoTask == <<>>

Init ==
  /\ stores = initialize(ALL_STORES)
  /\ value = [s \in Instances |-> StoreDefault(s)]
  /\ destroyed = FALSE
  /\ subs = subscribeEvents
  /\ tasks = EmptyBag
  /\ selectSubs = {}
  /\ last = Step("new", Undefined, <<>>, TRUE, TRUE, <<>>, NoResult, NoTask, {})

\* The promise of a refresh() call joins the tasks if it is still pending.
Spawned(r, origin) == [i \in 1 .. Len(r.task) |-> [r.task[i] EXCEPT !.origin = origin]]

Spawn(r, origin) == tasks (+) SetToBag({Spawned(r, origin)[i] : i \in 1 .. Len(r.task)})

\* A task moves on; a settled promise leaves the tasks.
Settle(old, new) ==
  IF new.status = "pending" THEN (tasks (-) SetToBag({old})) (+) SetToBag({new})
  ELSE tasks (-) SetToBag({old})

NumTasks == BagCardinality(tasks)

SpawnedCalls(r) ==
  IF r.task = <<>> THEN <<>> ELSE NewCalls(Task(FALSE, <<>>, {}, Pending), r.task[1])

(***************************************************************************)
(* Inbound events of the client.                                           *)
(***************************************************************************)
\* fromEvent('connect') -> takeUntil(destroy$) -> () => this.refresh()
OnConnect ==
  LET active == "connect" \in subs
      r == IF active THEN refresh(Undefined) ELSE [result |-> NoResult, task |-> <<>>]
  IN /\ NumTasks + Len(r.task) <= MaxTasks
     /\ tasks' = Spawn(r, "connect")
     /\ last' = Step("connect", Undefined, <<>>, active, active, SpawnedCalls(r),
                     r.result, Spawned(r, "connect"), {})
     /\ UNCHANGED <<stores, value, destroyed, subs, selectSubs>>

\* The subscriber of 'event:state' and of 'event:reset':
\* takeUntil(destroy$) -> filterHasStore() -> evt => this.set(evt.name, evt.state)
OnStateUpdate(channel, evt) ==
  LET active == channel \in subs
      passed == active /\ filterHasStore(evt)
      calls == IF passed THEN set(evt.name, evt.state) ELSE <<>>
  IN /\ value' = ApplyCalls(value, calls)
     /\ last' = Step(channel, Str(evt.name), <<evt.state>>, active, passed, calls,
                     NoResult, NoTask, StoreEmits(value, value', selectSubs))
     /\ UNCHANGED <<stores, destroyed, subs, tasks, selectSubs>>

OnEventState(evt) == OnStateUpdate("event:state", evt)

OnEventReset(evt) == OnStateUpdate("event:reset", evt)

\* fromEvent('event:entity') -> takeUntil(destroy$) -> filterHasStore()
\*   -> evt => this.refresh(evt.name)
OnEventEntity(evt) ==
  LET active == "event:entity" \in subs
      passed == active /\ filterHasStore(evt)
      r == IF passed THEN refresh(Str(evt.name)) ELSE [result |-> NoResult, task |-> <<>>]
  IN /\ NumTasks + Len(r.task) <= MaxTasks
     /\ tasks' = Spawn(r, "call")
     /\ last' = Step("event:entity", Str(evt.name), <<>>, active, passed, SpawnedCalls(r),
                     r.result, Spawned(r, "call"), {})
     /\ UNCHANGED <<stores, value, destroyed, subs, selectSubs>>

(***************************************************************************)
(* Calls of the public API by application code.                            *)
(***************************************************************************)
RefreshArgs == {Undefined} \cup {Str(n) : n \in Strings}

CallRefresh(storeName) ==
  LET r == refresh(storeName)
  IN /\ NumTasks + Len(r.task) <= MaxTasks
     /\ tasks' = Spawn(r, "call")
     /\ last' = Step("refresh", storeName, <<>>, TRUE, TRUE, SpawnedCalls(r),
                     r.result, Spawned(r, "call"), {})
     /\ UNCHANGED <<stores, value, destroyed, subs, selectSubs>>

CallReset ==
  /\ value' = ApplyCalls(value, reset)
  /\ last' = Step("reset", Undefined, <<>>, TRUE, TRUE, reset, Return(TRUE), NoTask,
                  StoreEmits(value, value', selectSubs))
  /\ UNCHANGED <<stores, destroyed, subs, tasks, selectSubs>>

CallGetStore(nameOrType) ==
  /\ last' = Step("getStore", nameOrType, <<>>, TRUE, TRUE, <<>>, getStore(nameOrType), NoTask, {})
  /\ UNCHANGED <<stores, value, destroyed, subs, tasks, selectSubs>>

CallHasStore(nameOrType) ==
  /\ last' = Step("hasStore", nameOrType, <<>>, TRUE, TRUE, <<>>, hasStore(nameOrType), NoTask, {})
  /\ UNCHANGED <<stores, value, destroyed, subs, tasks, selectSubs>>

CallGet(nameOrType) ==
  /\ last' = Step("get", nameOrType, <<>>, TRUE, TRUE, <<>>, get(nameOrType), NoTask, {})
  /\ UNCHANGED <<stores, value, destroyed, subs, tasks, selectSubs>>

\* select(nameOrType): the observable store.select() returns, as it is;
\* the caller subscribes to it.
select(nameOrType) ==
  LET g == getStore(nameOrType)
  IN IF g.kind = "throw" THEN [result |-> g, subscription |-> {}]
     ELSE [result |-> g, subscription |-> {[store |-> g.val]}]

CallSelect(nameOrType) ==
  LET r == select(nameOrType)
  IN /\ selectSubs' = (IF destroyed THEN selectSubs ELSE selectSubs \cup r.subscription)
     /\ last' = Step("select", nameOrType, <<>>, TRUE, TRUE, <<>>, r.result, NoTask, {})
     /\ UNCHANGED <<stores, value, destroyed, subs, tasks>>

\* A destroy() that also empties the map.
CallDestroy_ClearsStores ==
  LET d == destroy
  IN /\ value' = ApplyCalls(value, d.calls)
     /\ destroyed' = (destroyed \/ d.destroyed)
     /\ subs' = subs \cap d.subs
     /\ stores' = <<>>
     /\ last' = Step("destroy", Undefined, <<>>, ~destroyed, TRUE, d.calls, Return(TRUE), NoTask,
                     StoreEmits(value, value', selectSubs))
     /\ UNCHANGED <<tasks, selectSubs>>

\* A destroy() that does nothing when destroy$ has completed already.
CallDestroy_OnceOnly ==
  LET d == destroy
      calls == IF destroyed THEN <<>> ELSE d.calls
  IN /\ value' = ApplyCalls(value, calls)
     /\ destroyed' = (destroyed \/ d.destroyed)
     /\ subs' = subs \cap d.subs
     /\ last' = Step("destroy", Undefined, <<>>, ~destroyed, TRUE, calls, Return(TRUE), NoTask,
                     StoreEmits(value, value', selectSubs))
     /\ UNCHANGED <<stores, tasks, selectSubs>>

\* destroy(); `active` records whether destroy$ was still open at the call.
CallDestroy ==
  LET d == destroy
  IN /\ value' = ApplyCalls(value, d.calls)
     /\ destroyed' = (destroyed \/ d.destroyed)
     /\ subs' = subs \cap d.subs
     /\ last' = Step("destroy", Undefined, <<>>, ~destroyed, TRUE, d.calls, Return(TRUE), NoTask,
                     StoreEmits(value, value', selectSubs))
     /\ UNCHANGED <<stores, tasks, selectSubs>>

(***************************************************************************)
(* The remote answers: the refresh() of store s awaited by task t settles. *)
(***************************************************************************)
StoreRefreshResolves(t, s, v) ==
  /\ BagIn(t, tasks)
  /\ s \in t.inflight
  /\ value' = StoreRefreshed(value, s, v)
  /\ LET task == resume(t, s)
     IN /\ tasks' = Settle(t, task)
        /\ last' = Step("resolve", Typ(s), <<v>>, TRUE, TRUE, NewCalls(t, task),
                        [kind |-> task.status, val |-> task.err], <<task>>,
                        StoreEmits(value, value', selectSubs))
  /\ UNCHANGED <<stores, destroyed, subs, selectSubs>>

StoreRefreshRejects(t, s) ==
  /\ BagIn(t, tasks)
  /\ s \in t.inflight
  /\ LET task == abort(t, s, RemoteError(s))
     IN /\ tasks' = Settle(t, task)
        /\ last' = Step("reject", Typ(s), <<>>, TRUE, TRUE, NewCalls(t, task),
                        [kind |-> task.status, val |-> task.err], <<task>>, {})
  /\ UNCHANGED <<stores, value, destroyed, subs, selectSubs>>

StateUpdates == [name : Strings, state : Values]
EntityEvents == [name : Strings]

(***************************************************************************)
(* Spec: event routing, refreshing and the life cycle.  The operations     *)
(* that only read (getStore, hasStore, get) change nothing but `last`;     *)
(* they are exercised by SpecLookup below.                                 *)
(***************************************************************************)
Next ==
  \/ OnConnect
  \/ \E evt \in StateUpdates : OnEventState(evt)
  \/ \E evt \in StateUpdates : OnEventReset(evt)
  \/ \E evt \in EntityEvents : OnEventEntity(evt)
  \/ \E a \in RefreshArgs : CallRefresh(a)
  \/ CallReset
  \/ \E id \in Identifiers : CallSelect(id)
  \/ CallDestroy
  \/ \E t \in BagToSet(tasks), s \in Instances, v \in Values : StoreRefreshResolves(t, s, v)
  \/ \E t \in BagToSet(tasks), s \in Instances : StoreRefreshRejects(t, s)

Spec == Init /\ [][Next]_vars

(***************************************************************************)
(* SpecLookup: identifier resolution.  Every operation that resolves an    *)
(* identifier is called with every identifier, in the states the deltas,   *)
(* refreshes and destroy() produce.                                        *)
(***************************************************************************)
LookupNext ==
  \/ \E id \in Identifiers : CallGetStore(id)
  \/ \E id \in Identifiers : CallHasStore(id)
  \/ \E id \in Identifiers : CallGet(id)
  \/ \E id \in Identifiers : CallSelect(id)
  \/ \E a \in RefreshArgs : CallRefresh(a)
  \/ \E evt \in StateUpdates : OnEventState(evt)
  \/ CallDestroy
  \/ \E t \in BagToSet(tasks), s \in Instances, v \in Values : StoreRefreshResolves(t, s, v)

SpecLookup == Init /\ [][LookupNext]_vars

(***************************************************************************)
(* SpecConstruct: the same operations, starting before `new StateManager`. *)
(* The constructor calls initialize(ALL_STORES), an async function without *)
(* an await: its body (lines 110-117) runs to its end inside the           *)
(* constructor call.  The client can emit events at any time; the public   *)
(* methods can be called once the constructor has returned the object.     *)
(***************************************************************************)
InitNew ==
  /\ stores = <<>>
  /\ value = [s \in Instances |-> StoreDefault(s)]
  /\ destroyed = FALSE
  /\ subs = {}
  /\ tasks = EmptyBag
  /\ selectSubs = {}
  /\ last = Step("none", Undefined, <<>>, FALSE, FALSE, <<>>, NoResult, NoTask, {})

Constructed == stores # <<>>

Construct ==
  /\ ~Constructed
  /\ stores' = initialize(ALL_STORES)
  /\ subs' = subscribeEvents
  /\ last' = Step("new", Undefined, <<>>, TRUE, TRUE, <<>>, NoResult, NoTask, {})
  /\ UNCHANGED <<value, destroyed, tasks, selectSubs>>

ConstructNext ==
  \/ Construct
  \/ OnConnect
  \/ \E evt \in StateUpdates : OnEventState(evt)
  \/ \E evt \in StateUpdates : OnEventReset(evt)
  \/ \E evt \in EntityEvents : OnEventEntity(evt)
  \/ Constructed /\ \E a \in RefreshArgs : CallRefresh(a)
  \/ Constructed /\ CallReset
  \/ Constructed /\ \E id \in Identifiers : CallSelect(id)
  \/ Constructed /\ CallDestroy
  \/ \E t \in BagToSet(tasks), s \in Instances, v \in Values : StoreRefreshResolves(t, s, v)
  \/ \E t \in BagToSet(tasks), s \in Instances : StoreRefreshRejects(t, s)

SpecConstruct == InitNew /\ [][ConstructNext]_vars

(***************************************************************************)
(* SpecAll: construction, every public operation and every event.          *)
(***************************************************************************)
AllNext ==
  \/ ConstructNext
  \/ Constructed /\ \E id \in Identifiers : CallGetStore(id)
  \/ Constructed /\ \E id \in Identifiers : CallHasStore(id)
  \/ Constructed /\ \E id \in Identifiers : CallGet(id)

SpecAll == InitNew /\ [][AllNext]_vars

(***************************************************************************)
(* Properties.                                                             *)
(***************************************************************************)
\* The registered names are the canonical names of the types of ALL_STORES;
\* StoreOf(n) is the store constructed from the type named n.
Registered(name) == \E s \in Instances : STORE_CONFIG(s).name = name
StoreOf(name) == CHOOSE s \in Instances : STORE_CONFIG(s).name = name
StateChannels == {"event:state", "event:reset"}
EventChannels == {"event:state", "event:reset", "event:entity"}
CallsOf(m) == {i \in 1 .. Len(last.calls) : last.calls[i].m = m}

\* C1: a state-delta or reset-notification event {name: n, state: v} for a
\* registered store n, processed while the subscriptions are active, makes
\* exactly one store call, set(v) on store n; afterwards the value of n is v
\* and the value of every other store is what it was.
C1_DeltaSetsNamedStoreOnly ==
  [][(last'.op \in StateChannels /\ last'.active /\ Registered(last'.id.v)) =>
       LET s == StoreOf(last'.id.v)
           v == last'.arg[1]
       IN /\ last'.calls = <<Call("set", s, <<v>>)>>
          /\ StoreGet(value', s) = v
          /\ \A o \in Instances \ {s} : StoreGet(value', o) = StoreGet(value, o)]_vars

\* A reset notification has overwritten a store while the other store holds
\* a different, non-default value.
C1_Witness ==
  /\ last.op = "event:reset" /\ last.active /\ Registered(last.id.v)
  /\ Len(last.calls) = 1
  /\ \E o \in Instances \ {StoreOf(last.id.v)} :
       /\ value[o] # StoreDefault(o)
       /\ value[o] # value[StoreOf(last.id.v)]

\* C2: a state-delta, reset-notification or entity-changed event whose name
\* is not a registered store is dropped: no store method is invoked, no
\* value changes, no refresh is started and no error is raised.
C2_UnknownNameDropped ==
  [][(last'.op \in EventChannels /\ ~Registered(last'.id.v)) =>
       /\ last'.calls = <<>>
       /\ value' = value
       /\ tasks' = tasks
       /\ last'.result = NoResult
       /\ last'.emits = {}]_vars

\* An entity-changed event for an unregistered name arrived while the
\* subscriptions were active and a store holds a non-default value.
C2_Witness ==
  /\ last.op = "event:entity" /\ last.active /\ ~last.passed
  /\ last.id.v \in {"unknown", ""}
  /\ \E o \in Instances : value[o] # StoreDefault(o)

\* The refresh() calls the latest step started or resumed, and all that are
\* still pending.
StepTasks == {last.task[i] : i \in 1 .. Len(last.task)}
AllTasks == BagToSet(tasks) \cup StepTasks
IsPrefix(a, b) == Len(a) <= Len(b) /\ \A i \in 1 .. Len(a) : a[i] = b[i]
Times(s, seq) == Cardinality({i \in 1 .. Len(seq) : seq[i] = s})
Settled(t) == t.status # "pending"

\* C3 as claimed: a connect event processed while the subscriptions are
\* active causes exactly one refresh() invocation on every registered store
\* and no set() call, whatever the outcome of the individual refreshes.
C3_Original ==
  /\ (last.op = "connect" /\ last.active) => CallsOf("set") = {}
  /\ \A t \in StepTasks :
       (t.origin = "connect" /\ Settled(t)) =>
         \A s \in Instances : Times(s, t.invoked) = 1

\* C3, amended: a connect event processed while the subscriptions are
\* active starts one bulk refresh, which makes no set() call and invokes
\* refresh() on the stores in registration order, each at most once; it has
\* invoked every store exactly once when it completes without a failure,
\* and only the stores up to the failing one when a store refresh fails.
C3_ConnectRefreshesInOrder ==
  /\ (last.op = "connect" /\ last.active) =>
       /\ last.calls = <<Call("refresh", MapValues(stores)[1], <<>>)>>
       /\ Len(last.task) = 1
       /\ last.task[1].origin = "connect" /\ last.task[1].bulk
  /\ \A t \in AllTasks :
       t.origin = "connect" =>
         /\ IsPrefix(t.invoked, MapValues(stores))
         /\ t.status = "fulfilled" => t.invoked = MapValues(stores)
         /\ t.status = "rejected" => t.err = RemoteError(t.invoked[Len(t.invoked)])
  /\ \A t \in StepTasks :
       t.origin = "connect" =>
         /\ CallsOf("set") = {}
         /\ Len(last.calls) <= 1

\* The bulk refresh a connect event started has completed, every store
\* refreshed once.
C3_Witness ==
  /\ last.op = "resolve"
  /\ \E t \in StepTasks :
       /\ t.origin = "connect" /\ t.status = "fulfilled"
       /\ \A s \in Instances : Times(s, t.invoked) = 1

\* C4: an entity-changed event {name: n} for a registered store n, processed
\* while the subscriptions are active, invokes refresh() on store n and
\* nothing else: the refresh call it starts awaits that store alone, never
\* invokes another store's refresh() and makes no set() call.
C4_EntityRefreshesNamedStoreOnly ==
  /\ (last.op = "event:entity" /\ last.active /\ Registered(last.id.v)) =>
       /\ last.calls = <<Call("refresh", StoreOf(last.id.v), <<>>)>>
       /\ Len(last.task) = 1
       /\ ~last.task[1].bulk
       /\ last.task[1].invoked = <<StoreOf(last.id.v)>>
       /\ last.task[1].inflight = {StoreOf(last.id.v)}
  /\ \A t \in AllTasks : ~t.bulk => Len(t.invoked) = 1
  /\ \A t \in StepTasks :
       (~t.bulk /\ last.op \in {"resolve", "reject"}) => (last.calls = <<>> /\ Settled(t))

\* An entity-changed event for the second store started a refresh of that
\* store while a refresh of the first store was pending.
C4_Witness ==
  /\ last.op = "event:entity" /\ last.active
  /\ last.id.v = "playback"
  /\ Len(last.task) = 1
  /\ \E t \in BagToSet(tasks) : "VolumeStore" \in t.inflight

\* The stores that have a refresh() in flight, over all pending calls.
StoresInFlight == UNION {t.inflight : t \in BagToSet(tasks)}

\* C5 as claimed: in every reachable state at most one store's refresh() is
\* in flight, also when events and public refresh calls arrive while
\* another refresh is suspended.
C5_Original == Cardinality(StoresInFlight) <= 1

\* C5, amended: within one refresh() call no two stores perform remote
\* pulls in parallel: in every reachable state every pending refresh call
\* has exactly one store refresh in flight, that of the store it invoked
\* last.  (Refreshes of different calls may be in flight together.)
C5_OneInFlightPerCall ==
  \A t \in AllTasks :
    /\ Cardinality(t.inflight) <= 1
    /\ t.status = "pending" => t.inflight = {t.invoked[Len(t.invoked)]}
    /\ Settled(t) => t.inflight = {}

\* A bulk refresh is awaiting its second store while another call's refresh
\* of the first store is in flight.
C5_Witness ==
  \E t1, t2 \in BagToSet(tasks) :
    /\ t1.bulk /\ t1.inflight = {"PlaybackStore"} /\ Len(t1.invoked) = 2
    /\ t2.inflight = {"VolumeStore"}

\* C6: when a store's refresh() fails during a bulk refresh(), the promise
\* of refresh() rejects with that very error, the call invokes no further
\* store's refresh() (the failing store is the last one it invoked and the
\* call is over), and no store's value is changed by the failure.
C6_BulkFailureHalts ==
  [][(last'.op = "reject" /\ last'.task[1].bulk) =>
       LET t == last'.task[1]
           s == last'.id.v
       IN /\ last'.result = Rejected(RemoteError(s))
          /\ t.status = "rejected" /\ t.err = RemoteError(s)
          /\ last'.calls = <<>>
          /\ t.invoked[Len(t.invoked)] = s
          /\ IsPrefix(t.invoked, MapValues(stores))
          /\ t.inflight = {}
          /\ BagCardinality(tasks') = BagCardinality(tasks) - 1
          /\ \A u \in BagToSet(tasks') : BagIn(u, tasks)
          /\ value' = value]_vars

\* A bulk refresh failed at its second store after the first store's
\* refresh had produced a non-default value, which it keeps.
C6_Witness ==
  /\ last.op = "reject" /\ last.task[1].bulk
  /\ last.id.v = "PlaybackStore"
  /\ last.task[1].invoked = <<"VolumeStore", "PlaybackStore">>
  /\ value["VolumeStore"] # StoreDefault("VolumeStore")

\* C7: refresh(n) for a registered store name n invokes refresh() on store
\* n alone (the call awaits that store and invokes nothing else), changes
\* no value when it is made, and its completion changes the value of store
\* n only.
C7_RefreshNameTouchesNamedStoreOnly ==
  [][/\ (last'.op = "refresh" /\ last'.id.t = "string" /\ Registered(last'.id.v)) =>
          /\ last'.calls = <<Call("refresh", StoreOf(last'.id.v), <<>>)>>
          /\ Len(last'.task) = 1
          /\ ~last'.task[1].bulk
          /\ last'.task[1].invoked = <<StoreOf(last'.id.v)>>
          /\ value' = value
     /\ (last'.op \in {"resolve", "reject"} /\ ~last'.task[1].bulk) =>
          /\ last'.calls = <<>>
          /\ Settled(last'.task[1])
          /\ last'.task[1].invoked = <<last'.id.v>>
          /\ \A o \in Instances \ {last'.id.v} : value'[o] = value[o]]_vars

\* refresh("playback") has completed and changed the value of the second
\* store while the first store holds a non-default value.
C7_Witness ==
  /\ last.op = "resolve" /\ ~last.task[1].bulk
  /\ last.id.v = "PlaybackStore"
  /\ value["PlaybackStore"] = last.arg[1]
  /\ value["VolumeStore"] # StoreDefault("VolumeStore")
  /\ value["VolumeStore"] # value["PlaybackStore"]

\* C8 as claimed: for every string that is not a registered store name,
\* refresh(name), getStore(name), get(name) and select(name) fail with the
\* NotFound error naming that string, invoke no store method and change no
\* store's value.
C8_Original ==
  [][(/\ last'.op \in {"refresh", "getStore", "get", "select"}
      /\ last'.id.t = "string"
      /\ ~Registered(last'.id.v)) =>
       /\ last'.result.kind \in {"throw", "rejected"}
       /\ last'.result.val = NotFound(last'.id.v)
       /\ last'.calls = <<>>
       /\ value' = value]_vars

\* C9 as claimed: hasStore never throws; for every identifier it returns a
\* boolean, and it returns false exactly for the identifiers on which
\* getStore fails with NotFound.
C9_Original ==
  last.op = "hasStore" =>
    /\ last.result.kind = "return"
    /\ last.result.val \in BOOLEAN
    /\ (last.result.val = FALSE) <=>
         (getStore(last.id).kind = "throw" /\ getStore(last.id).val = NotFound(ResolveName(last.id).val))

\* C10 as claimed: once destroy() has returned, no select() subscription
\* made before it receives a further value, also when a refresh that was in
\* flight at destroy() completes afterwards.
C10_Original == [][destroyed => last'.emits = {}]_vars

\* C11: destroy() ends all four event subscriptions: once destroy() has
\* returned, a connect, state-delta, reset-notification or entity-changed
\* event is not processed, so it invokes no store's set() or refresh(),
\* starts no refresh call and changes no value.
C11_NoEventAfterDestroy ==
  [][(destroyed /\ last'.op \in Channels) =>
       /\ ~last'.active
       /\ last'.calls = <<>>
       /\ last'.task = NoTask
       /\ tasks' = tasks
       /\ value' = value]_vars

\* After destroy(), a state delta for a registered store carrying a value
\* other than the store's current one has arrived and was not applied.
C11_Witness ==
  /\ destroyed
  /\ last.op = "event:state" /\ Registered(last.id.v)
  /\ last.arg[1] # value[StoreOf(last.id.v)]

\* C12: reset() calls reset() on every store and nothing else: when it
\* returns every store holds its default value, no store's refresh() was
\* invoked, no refresh call was started or resumed, and it returned
\* normally.
C12_ResetRestoresDefaults ==
  [][last'.op = "reset" =>
       /\ \A s \in Instances : StoreGet(value', s) = StoreDefault(s)
       /\ \A i \in 1 .. Len(last'.calls) : last'.calls[i].m = "reset"
       /\ \A s \in Instances : \E i \in 1 .. Len(last'.calls) : last'.calls[i].store = s
       /\ last'.result.kind = "return"
       /\ last'.task = NoTask
       /\ tasks' = tasks]_vars

\* reset() has just changed the value a select() subscriber was watching,
\* while a refresh is pending.
C12_Witness ==
  /\ last.op = "reset"
  /\ last.emits # {}
  /\ tasks # EmptyBag

\* C13: identifier resolution converges.  getStore with a registered type
\* and getStore with that type's canonical name return the same store, the
\* one constructed from that type; hasStore answers the same for a type
\* that carries a descriptor and for its canonical name; and getStore with
\* a registered name returns the store registered under that name.
C13_ResolutionConverges ==
  /\ (last.op = "getStore" /\ last.id.t = "type" /\ last.id.v \in Instances) =>
       /\ last.result = Return(last.id.v)
       /\ last.result = getStore(Str(STORE_CONFIG(last.id.v).name))
  /\ (last.op = "getStore" /\ last.id.t = "string" /\ Registered(last.id.v)) =>
       /\ last.result = Return(StoreOf(last.id.v))
       /\ STORE_CONFIG(last.result.val).name = last.id.v
  /\ (last.op = "hasStore" /\ last.id.t = "type" /\ STORE_CONFIG(last.id.v).defined) =>
       /\ last.result = hasStore(Str(STORE_CONFIG(last.id.v).name))
       /\ last.result = Return(last.id.v \in Instances)
  /\ (last.op = "hasStore" /\ last.id.t = "string") =>
       last.result = Return(Registered(last.id.v))

\* getStore was called with the type of the second store and returned.
C13_Witness ==
  /\ last.op = "getStore"
  /\ last.id = Typ("PlaybackStore")
  /\ last.result.kind = "return"

\* C14: a reset() that directly follows a reset() changes no store's value:
\* two calls in a row leave every store with the value one call leaves.
C14_ResetIdempotent ==
  [][(last.op = "reset" /\ last'.op = "reset") => value' = value]_vars

\* A reset() has run with a subscriber watching and a refresh pending: the
\* state in which a second reset() directly follows.
C14_Witness ==
  /\ last.op = "reset"
  /\ selectSubs # {}
  /\ last.emits = {}
  /\ ApplyCalls(value, reset) = value
  /\ tasks # EmptyBag

\* C15: while a refresh of store S is suspended, a state delta for S is
\* still processed and overwrites S's value, without touching the pending
\* refresh; and the completion of a store's refresh overwrites that store's
\* value whatever was written in between.  Neither write is guarded by the
\* other, so the one applied last determines the value.
C15_LastWriteWins ==
  [][/\ (/\ last'.op \in StateChannels /\ last'.active /\ Registered(last'.id.v)
         /\ StoreOf(last'.id.v) \in StoresInFlight) =>
          /\ value'[StoreOf(last'.id.v)] = last'.arg[1]
          /\ tasks' = tasks
     /\ last'.op = "resolve" => value'[last'.id.v] = last'.arg[1]]_vars

\* A state delta for the first store has been applied while the bulk
\* refresh of a connect event was awaiting that store, and the store now
\* holds the delta's non-default value; the refresh is still to complete.
C15_Witness ==
  /\ last.op = "event:state" /\ last.active
  /\ last.id.v = "volume"
  /\ value["VolumeStore"] = last.arg[1]
  /\ value["VolumeStore"] # StoreDefault("VolumeStore")
  /\ \E t \in BagToSet(tasks) : t.origin = "connect" /\ t.inflight = {"VolumeStore"}

\* The registration order of the stores and the store that follows s in it.
Position(s) == CHOOSE i \in 1 .. Len(ALL_STORES) : ALL_STORES[i] = s
IsLastStore(s) == Position(s) = Len(ALL_STORES)

\* C16: destroy() cancels no refresh: it leaves the pending refresh calls
\* as they are, and a store refresh that completes after destroy() still
\* stores the pulled value, after which a bulk refresh goes on to invoke
\* refresh() on the next store.
C16_DestroyCancelsNoRefresh ==
  [][/\ last'.op = "destroy" => tasks' = tasks
     /\ (destroyed /\ last'.op = "resolve") =>
          /\ value'[last'.id.v] = last'.arg[1]
          /\ (last'.task[1].bulk /\ ~IsLastStore(last'.id.v)) =>
               /\ last'.calls = <<Call("refresh", ALL_STORES[Position(last'.id.v) + 1], <<>>)>>
               /\ last'.task[1].status = "pending"
               /\ BagIn(last'.task[1], tasks')]_vars

\* After destroy(), the bulk refresh that a connect event had started (so
\* before destroy(): afterwards no connect event is processed) completed
\* its first store with a non-default value and invoked the second store.
C16_Witness ==
  /\ destroyed
  /\ last.op = "resolve" /\ last.id.v = "VolumeStore"
  /\ last.task[1].origin = "connect"
  /\ value["VolumeStore"] # StoreDefault("VolumeStore")
  /\ last.calls = <<Call("refresh", "PlaybackStore", <<>>)>>

\* C17: within one bulk refresh() call the stores are refreshed in
\* registration order, each at most once: the stores the call has invoked
\* are a prefix of the registration order, only the store invoked last can
\* be in flight, the next store is invoked in the step in which the
\* previous one resolves, and a failure invokes nothing.
C17_BulkInRegistrationOrder ==
  /\ \A t \in AllTasks :
       t.bulk =>
         /\ IsPrefix(t.invoked, ALL_STORES)
         /\ \A s \in Instances : Times(s, t.invoked) <= 1
         /\ t.inflight \subseteq {t.invoked[Len(t.invoked)]}
  /\ \A t \in StepTasks :
       (t.bulk /\ last.op = "resolve") =>
         /\ last.id.v \notin t.inflight
         /\ IF IsLastStore(last.id.v)
            THEN last.calls = <<>> /\ t.status = "fulfilled"
            ELSE /\ last.calls = <<Call("refresh", ALL_STORES[Position(last.id.v) + 1], <<>>)>>
                 /\ t.invoked[Len(t.invoked)] = ALL_STORES[Position(last.id.v) + 1]
  /\ \A t \in StepTasks :
       (t.bulk /\ last.op = "reject") => (last.calls = <<>> /\ t.status = "rejected")
  /\ \A t \in StepTasks :
       (t.bulk /\ last.op \in {"connect", "refresh"}) =>
         last.calls = <<Call("refresh", ALL_STORES[1], <<>>)>>

\* A public refresh() has seen its first store resolve and is now awaiting
\* the second.
C17_Witness ==
  /\ last.op = "resolve" /\ last.id.v = "VolumeStore"
  /\ \E t \in StepTasks :
       /\ t.bulk /\ t.origin = "call"
       /\ t.invoked = <<"VolumeStore", "PlaybackStore">>
       /\ t.inflight = {"PlaybackStore"}

CanonicalNames == {STORE_CONFIG(s).name : s \in Instances}

\* C18: construction is one step.  In every state either nothing is set up
\* (no store, no subscription) or every type of ALL_STORES is registered
\* under its canonical name and, until destroy(), all four subscriptions
\* are active; an event is processed exactly when the stores exist and
\* destroy() has not been called.
C18_ConstructionAtomic ==
  /\ \/ stores = <<>> /\ subs = {} /\ ~destroyed
     \/ /\ MapKeys(stores) = CanonicalNames
        /\ Len(stores) = Len(ALL_STORES)
        /\ \A i \in 1 .. Len(stores) : STORE_CONFIG(stores[i].store).name = stores[i].key
        /\ IF destroyed THEN subs = {} ELSE subs = Channels
  /\ last.op \in Channels => (last.active <=> (stores # <<>> /\ ~destroyed))

\* The constructor has just returned.
C18_Witness ==
  /\ last.op = "new"
  /\ Len(stores) = Len(ALL_STORES)
  /\ subs = Channels

\* C19: once construction has finished the map is never written again: no
\* public operation, no event and no refresh continuation adds, removes or
\* replaces an entry; and its keys are pairwise distinct.
C19_StoresFixed ==
  [][/\ stores # <<>> => stores' = stores
     /\ \A i, j \in 1 .. Len(stores') : stores'[i].key = stores'[j].key => i = j]_vars

\* destroy() has been called a second time and the map still holds both
\* stores under their names.
C19_Witness ==
  /\ last.op = "destroy" /\ ~last.active
  /\ MapKeys(stores) = CanonicalNames
  /\ Len(stores) = Len(ALL_STORES)

\* C20: a destroy() called when destroy$ has already completed returns
\* normally: it calls reset() on every store again, so every store holds
\* its default, and the subscriptions stay terminated; it touches nothing
\* else.
C20_SecondDestroyHarmless ==
  [][(destroyed /\ last'.op = "destroy") =>
       /\ last'.result.kind = "return"
       /\ \A s \in Instances : value'[s] = StoreDefault(s)
       /\ \A s \in Instances : \E i \in 1 .. Len(last'.calls) : last'.calls[i] = Call("reset", s, <<>>)
       /\ subs' = {} /\ destroyed'
       /\ UNCHANGED <<stores, tasks, selectSubs>>]_vars

\* A second destroy() has reset a store that a refresh completing after the
\* first destroy() had changed, as its subscriber saw.
C20_Witness ==
  /\ last.op = "destroy" /\ ~last.active
  /\ last.emits # {}

====
